---- MODULE Spec2Model ----
(***************************************************************************)
(* Single-tape deterministic Turing machine interpreter (class             *)
(* TuringMachine of atc-9.py: halted flag, max_steps, bidirectional tape   *)
(* extension, transition trace), driven by reset() and step().             *)
(*                                                                         *)
(* Python lists are modelled as TLA+ sequences: the Python index i of a    *)
(* list t is the sequence index i + 1.  head keeps its Python value.       *)
(***************************************************************************)
EXTENDS Integers, Sequences, FiniteSets, TLC

VARIABLES
    states, tape_alphabet, start_state, accept_state, reject_state,
    transitions, max_steps,                  \* the machine definition
    tape, head, current_state, steps, transition_trace, halted,  \* run state
    ret,        \* value returned by the last call: <<>> for reset() (None),
                \* <<continues, message>> for step(), <<"TuringMachine">>
                \* (the new object) for the constructor
    err,        \* exception raised by the last step(), "none" if it returned
    calls,      \* history: step() calls since reset() made while not halted
    cause,      \* history: branch of step() that first set halted
    origin,     \* history: number of cells prepended since reset()
    written,    \* history: logical offset -> symbol last stored there
    input_string, \* history: the argument of the last reset()
    self,       \* the instance the engine variables above belong to (1 or 2)
    other,      \* attributes of the second instance built on the same
                \* definition, <<>> when there is only one instance
    driver,     \* the GUI program that owns the machine as its global tm:
                \* "atc9", "atc6", "atc11", or "none" without a GUI
    pending,    \* number of run_tm_step callbacks scheduled with root.after
    output_area, transition_area, verdict_label,    \* the GUI's widgets
    gui_err,    \* exception that ended the last callback, or "none"
    pc,         \* position of a run() call: "loop", "done", "raised", or
                \* "none" when run() is not used
    result,     \* the log run() builds and returns
    frames,     \* the interpreter's call stack during the halting-problem
                \* demo of atc.py, outermost frame first; <<>> outside it
    control,    \* what the top frame does: "call", "raise" (an exception
                \* is propagating), "return", "loop", "done", "failed",
                \* or "none" outside the demo
    retval,     \* the value being returned: "True", "False",
                \* "TuringMachine", or "none"
    input_str,  \* the argument of halts(paradox_tm, input_str)
    recursion_limit  \* sys.getrecursionlimit()

defvars == <<states, tape_alphabet, start_state, accept_state, reject_state,
             transitions, max_steps>>
runvars == <<tape, head, current_state, steps, transition_trace, halted>>
histvars == <<calls, cause, origin, written, input_string>>
pairvars == <<self, other>>
guivars == <<driver, pending, output_area, transition_area, verdict_label,
             gui_err>>
loopvars == <<pc, result>>
demovars == <<frames, control, retval, input_str, recursion_limit>>
envvars == <<pairvars, guivars, loopvars, demovars>>
vars == <<defvars, runvars, ret, err, histvars, envvars>>

----------------------------------------------------------------------------
(* Bounds of the model *)

MaxInputLen == 2      \* longest input string given to reset()
MaxStepLimit == 2     \* small max_steps values: 1..MaxStepLimit
LongRun == 52         \* one large max_steps value, enough to run off the
                      \* right end of the initial tape window

(* Program constants *)

PadLen == 50          \* ['_'] * 50 in reset()
DriverMaxSteps == 1000 \* max_steps=1000 in simulate_tm_gui

Blank == "_"

InputAlphabet == {"0", "1"}

Inputs == UNION {[1..n -> InputAlphabet] : n \in 0..MaxInputLen}

----------------------------------------------------------------------------
(* Helpers on sequences *)

SetMin(S) == CHOOSE x \in S : \A y \in S : x <= y
SetMax(S) == CHOOSE x \in S : \A y \in S : x >= y

\* t[i] with Python's list indexing: valid for -len <= i < len, a negative
\* index counts from the end.
PyValidIndex(t, i) == (-Len(t) <= i) /\ (i < Len(t))
PyPos(t, i) == IF i < 0 THEN Len(t) + i + 1 ELSE i + 1
PyGet(t, i) == t[PyPos(t, i)]
\* Variant: the assignment to the cell is lost.
PySet_Keep(t, i, v) == t

PySet(t, i, v) == [t EXCEPT ![PyPos(t, i)] = v]

\* ''.join(tape).strip('_') for single-character symbols
StripBlank(t) ==
    LET nb == {i \in 1..Len(t) : t[i] # Blank}
    IN  IF nb = {} THEN <<>> ELSE SubSeq(t, SetMin(nb), SetMax(nb))

\* f"{current_state}_{symbol}"
Key(state, symbol) == state \o "_" \o symbol

----------------------------------------------------------------------------
(* Machine definitions *)

tm_examples ==
    [name \in {"Match0n1n", "UnaryIncrement", "EvenOnes", "Palindrome"} |->
      CASE name = "Match0n1n" ->
        [states |-> <<"q0", "q1", "q2", "q3", "halt", "reject">>,
         tape_alphabet |-> <<"0", "1", "X", "Y", "_">>,
         start_state |-> "q0", accept_state |-> "halt",
         reject_state |-> "reject",
         transitions |->
            ( "q0_0" :> <<"q1", "X", "R">> @@ "q0_Y" :> <<"q0", "Y", "R">>
           @@ "q0__" :> <<"halt", "_", "N">> @@ "q1_0" :> <<"q1", "0", "R">>
           @@ "q1_Y" :> <<"q1", "Y", "R">> @@ "q1_1" :> <<"q2", "Y", "L">>
           @@ "q2_0" :> <<"q2", "0", "L">> @@ "q2_X" :> <<"q0", "X", "R">>
           @@ "q2_Y" :> <<"q2", "Y", "L">> @@ "q1__" :> <<"reject", "_", "N">>
           @@ "q0_1" :> <<"reject", "1", "N">> )]
      [] name = "UnaryIncrement" ->
        [states |-> <<"q0", "halt">>,
         tape_alphabet |-> <<"1", "_">>,
         start_state |-> "q0", accept_state |-> "halt",
         reject_state |-> "halt",
         transitions |->
            ( "q0_1" :> <<"q0", "1", "R">> @@ "q0__" :> <<"halt", "1", "N">> )]
      [] name = "EvenOnes" ->
        [states |-> <<"even", "odd", "halt", "reject">>,
         tape_alphabet |-> <<"1", "_">>,
         start_state |-> "even", accept_state |-> "halt",
         reject_state |-> "reject",
         transitions |->
            ( "even_1" :> <<"odd", "1", "R">> @@ "odd_1" :> <<"even", "1", "R">>
           @@ "even__" :> <<"halt", "_", "N">>
           @@ "odd__" :> <<"reject", "_", "N">> )]
      [] name = "Palindrome" ->
        [states |-> <<"q0", "q1", "q2", "q3", "q4", "q5", "halt", "reject">>,
         tape_alphabet |-> <<"0", "1", "X", "_">>,
         start_state |-> "q0", accept_state |-> "halt",
         reject_state |-> "reject",
         transitions |->
            ( "q0_0" :> <<"q1", "X", "R">> @@ "q0_1" :> <<"q2", "X", "R">>
           @@ "q0_X" :> <<"halt", "X", "N">> @@ "q0__" :> <<"halt", "_", "N">>
           @@ "q1_0" :> <<"q1", "0", "R">> @@ "q1_1" :> <<"q1", "1", "R">>
           @@ "q1_X" :> <<"q1", "X", "R">> @@ "q1__" :> <<"q3", "_", "L">>
           @@ "q2_0" :> <<"q2", "0", "R">> @@ "q2_1" :> <<"q2", "1", "R">>
           @@ "q2_X" :> <<"q2", "X", "R">> @@ "q2__" :> <<"q4", "_", "L">>
           @@ "q3_0" :> <<"q5", "X", "L">> @@ "q4_1" :> <<"q5", "X", "L">>
           @@ "q3_X" :> <<"halt", "X", "N">> @@ "q4_X" :> <<"halt", "X", "N">>
           @@ "q5_0" :> <<"q5", "0", "L">> @@ "q5_1" :> <<"q5", "1", "L">>
           @@ "q5_X" :> <<"q0", "X", "R">> )]]

\* Arguments with which simulate_tm_gui constructs the machine.
DriverDefs ==
    {[states |-> tm_examples[n].states,
      tape_alphabet |-> tm_examples[n].tape_alphabet,
      start_state |-> tm_examples[n].start_state,
      accept_state |-> tm_examples[n].accept_state,
      reject_state |-> tm_examples[n].reject_state,
      transitions |-> tm_examples[n].transitions,
      max_steps |-> DriverMaxSteps] : n \in DOMAIN tm_examples}

\* Every transition table of a one-working-state machine over {1, _}: any
\* subset of the keys, any next state, written symbol and direction.
CtorStates == {"q0", "halt", "reject"}
CtorSymbols == {"1", Blank}
CtorDirections == {"R", "L", "N"}
CtorKeys == {Key("q0", a) : a \in CtorSymbols}
CtorTables ==
    UNION {[D -> CtorStates \X CtorSymbols \X CtorDirections] :
           D \in SUBSET CtorKeys}

\* accept_state / reject_state arguments: distinct terminal states, and the
\* start state as accept state.
CtorTerminals == {<<"halt", "reject">>, <<"q0", "reject">>}

CtorStepLimits == (1..MaxStepLimit) \cup {LongRun}

\* Arguments of a direct TuringMachine(...) construction.
CtorDefs ==
    {[states |-> <<"q0", "halt", "reject">>,
      tape_alphabet |-> <<"1", "_">>,
      start_state |-> "q0",
      accept_state |-> ar[1],
      reject_state |-> ar[2],
      transitions |-> tr,
      max_steps |-> ms] :
        tr \in CtorTables, ar \in CtorTerminals, ms \in CtorStepLimits}

\* Arguments of the construction of example scenario 3: the single
\* transition (loop, '0') -> (loop, '0', R), accept state halt, max_steps 5.
Example3Def ==
    [states |-> <<"loop", "halt">>,
     tape_alphabet |-> <<"0", "_">>,
     start_state |-> "loop",
     accept_state |-> "halt",
     reject_state |-> "reject",
     transitions |-> ("loop_0" :> <<"loop", "0", "R">>),
     max_steps |-> 5]

\* Tables with a direction letter the engine does not know, next to 'L':
\* every key of the one-working-state machine goes to q0 or halt and
\* writes '1'.
OtherDirection == "S"

OtherDirDefs ==
    {[states |-> <<"q0", "halt", "reject">>,
      tape_alphabet |-> <<"1", "_">>,
      start_state |-> "q0",
      accept_state |-> "halt",
      reject_state |-> "reject",
      transitions |-> tr,
      max_steps |-> ms] :
        tr \in [CtorKeys -> {"q0", "halt"} \X {"1"} \X {"L", OtherDirection}],
        ms \in 1..(MaxStepLimit + 1)}

Definitions == DriverDefs \cup CtorDefs \cup {Example3Def} \cup OtherDirDefs

----------------------------------------------------------------------------
(* TuringMachine.reset *)

\* list(input_string) + ['_'] * 50
InitialTape(input) == input \o [i \in 1..PadLen |-> Blank]

\* The cells a fresh tape holds, by logical offset from cell 0.
InitialWritten(input) == [k \in 0..(Len(input) - 1) |-> input[k + 1]]

\* Variant: reset() of the variants without a trace (atc-3), trace kept.
ResetRunState_KeepTrace(input, start) ==
    /\ tape' = InitialTape(input)
    /\ head' = 0
    /\ current_state' = start
    /\ steps' = 0
    /\ UNCHANGED transition_trace
    /\ halted' = FALSE

\* Variant: reset() does not rewind the head.
ResetRunState_KeepHead(input, start) ==
    /\ tape' = InitialTape(input)
    /\ UNCHANGED head
    /\ current_state' = start
    /\ steps' = 0
    /\ transition_trace' = <<>>
    /\ halted' = FALSE

ResetRunState(input, start) ==
    /\ tape' = InitialTape(input)
    /\ head' = 0
    /\ current_state' = start
    /\ steps' = 0
    /\ transition_trace' = <<>>
    /\ halted' = FALSE

ResetHistory(input) ==
    /\ calls' = 0
    /\ cause' = "none"
    /\ origin' = 0
    /\ written' = InitialWritten(input)
    /\ input_string' = input

\* TuringMachine.__init__: store the definition, then reset(input_string)
Constructed(d, input) ==
    /\ states = d.states
    /\ tape_alphabet = d.tape_alphabet
    /\ start_state = d.start_state
    /\ accept_state = d.accept_state
    /\ reject_state = d.reject_state
    /\ transitions = d.transitions
    /\ max_steps = d.max_steps
    /\ tape = InitialTape(input)
    /\ head = 0
    /\ current_state = d.start_state
    /\ steps = 0
    /\ transition_trace = <<>>
    /\ halted = FALSE
    /\ ret = <<"TuringMachine">>
    /\ err = "none"
    /\ calls = 0
    /\ cause = "none"
    /\ origin = 0
    /\ written = InitialWritten(input)
    /\ input_string = input

\* A direct construction with any of the definitions.
Constructor == \E d \in Definitions, input \in Inputs : Constructed(d, input)

\* tm = TuringMachine(...): a new object replaces the one the variables held.
Construct(d, input) ==
    /\ states' = d.states
    /\ tape_alphabet' = d.tape_alphabet
    /\ start_state' = d.start_state
    /\ accept_state' = d.accept_state
    /\ reject_state' = d.reject_state
    /\ transitions' = d.transitions
    /\ max_steps' = d.max_steps
    /\ ResetRunState(input, d.start_state)
    /\ ResetHistory(input)
    /\ ret' = <<"TuringMachine">>
    /\ err' = "none"

Reset ==
    \E input \in Inputs :
        /\ ResetRunState(input, start_state)
        /\ ResetHistory(input)
        /\ ret' = <<>>
        /\ err' = "none"
        /\ UNCHANGED defvars

----------------------------------------------------------------------------
(* TuringMachine.step *)

\* Variant: the limit test is off by one.
LimitReached_Late == steps > max_steps

\* if self.steps >= self.max_steps
LimitReached == steps >= max_steps

\* Variant: no halted test.
AlreadyHalted_Never == FALSE

\* if self.halted
AlreadyHalted == halted

\* Variant: no extension to the right (the engines of atc-5 and atc-6).
ExtendRight_Never(t, h) == t

\* if self.head >= len(self.tape): self.tape.append('_')
ExtendRight(t, h) == IF h >= Len(t) THEN Append(t, Blank) ELSE t

\* Variant: the new cell is added at the wrong end.
ExtendLeft_Append(t, h) == IF h < 0 THEN <<Append(t, Blank), 0>> ELSE <<t, h>>

\* Variant: the cell is inserted but head is not set to 0.
ExtendLeft_NoRewind(t, h) == IF h < 0 THEN <<(<<Blank>> \o t), h>> ELSE <<t, h>>

\* if self.head < 0: self.tape.insert(0, '_'); self.head = 0
ExtendLeft(t, h) == IF h < 0 THEN <<(<<Blank>> \o t), 0>> ELSE <<t, h>>

\* tape and head after the boundary extension
Extended(t, h) == ExtendLeft(ExtendRight(t, h), h)

\* Variant: the test for 'R' never matches.
Move_NoRight(h, direction) ==
    IF direction = "L" THEN h - 1
    ELSE h

\* Variant: every letter but 'L' and 'N' moves right.
Move_ElseRight(h, direction) ==
    IF direction = "L" THEN h - 1
    ELSE IF direction = "N" THEN h
    ELSE h + 1

\* if direction == 'R': head += 1 / elif direction == 'L': head -= 1
Move(h, direction) ==
    IF direction = "R" THEN h + 1
    ELSE IF direction = "L" THEN h - 1
    ELSE h

\* Variant: only the accept state halts (the engines without reject_state).
InTerminal_AcceptOnly(state) == state = accept_state

\* Variant: no terminal-state test (the engines of atc-3 and atc-5).
InTerminal_Never(state) == FALSE

\* self.current_state in [self.accept_state, self.reject_state]
InTerminal(state) == state \in {accept_state, reject_state}

is_accepted == current_state = accept_state

is_rejected == current_state = reject_state

\* f"Step {steps}: State={state}, Head={head}, Tape={''.join(tape).strip('_')}"
StepMessage(n, state, h, t) == <<"step", n, state, h, StripBlank(t)>>

\* f"({current_state}, {symbol}) -> ({next_state}, {write_symbol}, {direction})"
TraceEntry(state, symbol, tr) == <<state, symbol, tr[1], tr[2], tr[3]>>

\* Number of cells the boundary extension put in front of the tape.
Prepended(t) == IF head < 0 /\ Len(t) = Len(tape) + 1 THEN 1 ELSE 0

StepLimit ==
    /\ halted' = TRUE
    /\ ret' = <<FALSE, <<"limit", max_steps>>>>
    /\ err' = "none"
    /\ cause' = IF halted THEN cause ELSE "limit"
    /\ UNCHANGED <<tape, head, current_state, steps, transition_trace,
                   origin, written>>

\* Variant: a step() on a halted machine resumes it.
StepAlreadyHalted_Resume ==
    /\ halted' = FALSE
    /\ ret' = <<FALSE, <<"already">>>>
    /\ err' = "none"
    /\ UNCHANGED <<tape, head, current_state, steps, transition_trace,
                   cause, origin, written>>

StepAlreadyHalted ==
    /\ ret' = <<FALSE, <<"already">>>>
    /\ err' = "none"
    /\ UNCHANGED <<runvars, cause, origin, written>>

\* symbol = self.tape[self.head] raises IndexError
StepIndexError(t, h) ==
    /\ tape' = t
    /\ head' = h
    /\ err' = "IndexError"
    /\ ret' = <<>>
    /\ origin' = origin + Prepended(t)
    /\ UNCHANGED <<current_state, steps, transition_trace, halted,
                   cause, written>>

\* Variant: a lookup miss returns False without setting halted (atc-5).
StepNoTransition_NoHalt(t, h, symbol) ==
    /\ tape' = t
    /\ head' = h
    /\ ret' = <<FALSE, <<"miss", current_state, symbol>>>>
    /\ err' = "none"
    /\ origin' = origin + Prepended(t)
    /\ UNCHANGED <<current_state, steps, transition_trace, halted, cause,
                   written>>

StepNoTransition(t, h, symbol) ==
    /\ tape' = t
    /\ head' = h
    /\ halted' = TRUE
    /\ ret' = <<FALSE, <<"miss", current_state, symbol>>>>
    /\ err' = "none"
    /\ cause' = IF halted THEN cause ELSE "miss"
    /\ origin' = origin + Prepended(t)
    /\ UNCHANGED <<current_state, steps, transition_trace, written>>

StepTransition(t, h, symbol, tr) ==
    LET next_state == tr[1]
        write_symbol == tr[2]
        direction == tr[3]
        org == origin + Prepended(t)
        nowHalted == InTerminal(next_state)
    IN  /\ transition_trace' =
              Append(transition_trace, TraceEntry(current_state, symbol, tr))
        /\ tape' = PySet(t, h, write_symbol)
        /\ current_state' = next_state
        /\ head' = Move(h, direction)
        /\ steps' = steps + 1
        /\ halted' = (halted \/ nowHalted)
        /\ ret' = <<~(halted \/ nowHalted),
                    StepMessage(steps + 1, next_state, Move(h, direction),
                                PySet(t, h, write_symbol))>>
        /\ err' = "none"
        /\ cause' = IF nowHalted /\ ~halted THEN "terminal" ELSE cause
        /\ origin' = org
        /\ written' = [k \in DOMAIN written \cup {PyPos(t, h) - 1 - org} |->
                         IF k = PyPos(t, h) - 1 - org THEN write_symbol
                         ELSE written[k]]

\* Variant: the tape is extended before the step limit is tested.
Step_ExtendFirst ==
    /\ calls' = IF halted THEN calls ELSE calls + 1
    /\ UNCHANGED <<defvars, input_string>>
    /\ LET ext == Extended(tape, head)
           t == ext[1]
           h == ext[2]
       IN  IF LimitReached
           THEN /\ tape' = t
                /\ head' = h
                /\ halted' = TRUE
                /\ ret' = <<FALSE, <<"limit", max_steps>>>>
                /\ err' = "none"
                /\ cause' = IF halted THEN cause ELSE "limit"
                /\ origin' = origin + Prepended(t)
                /\ UNCHANGED <<current_state, steps, transition_trace,
                               written>>
           ELSE IF AlreadyHalted THEN StepAlreadyHalted
           ELSE LET symbol == PyGet(t, h)
                    key == Key(current_state, symbol)
                IN  IF key \notin DOMAIN transitions
                    THEN StepNoTransition(t, h, symbol)
                    ELSE StepTransition(t, h, symbol, transitions[key])

Step ==
    /\ calls' = IF halted THEN calls ELSE calls + 1
    /\ UNCHANGED <<defvars, input_string>>
    /\ IF LimitReached THEN StepLimit
       ELSE IF AlreadyHalted THEN StepAlreadyHalted
       ELSE LET ext == Extended(tape, head)
                t == ext[1]
                h == ext[2]
            IN  IF ~PyValidIndex(t, h) THEN StepIndexError(t, h)
                ELSE LET symbol == PyGet(t, h)
                         key == Key(current_state, symbol)
                     IN  IF key \notin DOMAIN transitions
                         THEN StepNoTransition(t, h, symbol)
                         ELSE StepTransition(t, h, symbol, transitions[key])

\* One TuringMachine object and nothing else.
SingleInstance == self = 1 /\ other = <<>>

\* No GUI around the machine.
NoGui ==
    /\ driver = "none"
    /\ pending = 0
    /\ output_area = <<>>
    /\ transition_area = <<>>
    /\ verdict_label = ""
    /\ gui_err = "none"

\* No run() call in progress.
NoLoop == pc = "none" /\ result = <<>>

\* The halting-problem demo is not running.
NoDemo ==
    /\ frames = <<>>
    /\ control = "none"
    /\ retval = "none"
    /\ input_str = <<>>
    /\ recursion_limit = 0

\* One machine was constructed; nothing drives it but reset() and step().
Init ==
    /\ Constructor
    /\ SingleInstance
    /\ NoGui
    /\ NoLoop
    /\ NoDemo

Next ==
    \/ Reset /\ UNCHANGED envvars
    \/ Step /\ UNCHANGED envvars

Spec == Init /\ [][Next]_vars

----------------------------------------------------------------------------
(* Two TuringMachine objects built on the same definition.  A caller works
   on one object at a time: the engine variables hold the attributes of the
   object `self`, `other` holds those of the second object. *)

\* Definitions used for two objects: the shipped examples, example 3 and the
\* constructor tables with MaxStepLimit steps that never leave q0.
PairDefinition ==
    \/ max_steps = DriverMaxSteps
    \/ transitions = Example3Def.transitions
    \/ /\ max_steps = MaxStepLimit
       /\ accept_state = "halt"
       /\ DOMAIN transitions = CtorKeys
       /\ \A k \in CtorKeys : transitions[k][1] = "q0" /\ transitions[k][2] = "1"

\* The instance attributes of the object `self` (self.tape, self.head, ...),
\* with what its last call returned and its history.
Attributes ==
    [tape |-> tape, head |-> head, current_state |-> current_state,
     steps |-> steps, transition_trace |-> transition_trace,
     halted |-> halted, ret |-> ret, err |-> err, calls |-> calls,
     cause |-> cause, origin |-> origin, written |-> written,
     input_string |-> input_string]

\* Attributes of a newly constructed object.
NewAttributes(input) ==
    [tape |-> InitialTape(input), head |-> 0, current_state |-> start_state,
     steps |-> 0, transition_trace |-> <<>>, halted |-> FALSE,
     ret |-> <<"TuringMachine">>, err |-> "none", calls |-> 0,
     cause |-> "none", origin |-> 0, written |-> InitialWritten(input),
     input_string |-> input]

\* The engine variables become the attributes a.
Load(a) ==
    /\ tape' = a.tape
    /\ head' = a.head
    /\ current_state' = a.current_state
    /\ steps' = a.steps
    /\ transition_trace' = a.transition_trace
    /\ halted' = a.halted
    /\ ret' = a.ret
    /\ err' = a.err
    /\ calls' = a.calls
    /\ cause' = a.cause
    /\ origin' = a.origin
    /\ written' = a.written
    /\ input_string' = a.input_string

PairInit ==
    /\ Constructor
    /\ PairDefinition
    /\ self = 1
    /\ \E input \in Inputs : other = NewAttributes(input)
    /\ NoGui
    /\ NoLoop
    /\ NoDemo

\* Variant: transition_trace is one list shared by both objects (a class
\* attribute), so it does not change with the object.
Switch_SharedTrace ==
    /\ self' = 3 - self
    /\ other' = Attributes
    /\ Load([other EXCEPT !.transition_trace = transition_trace])
    /\ UNCHANGED <<defvars, guivars, loopvars, demovars>>

\* The caller turns to the other object.
Switch ==
    /\ self' = 3 - self
    /\ other' = Attributes
    /\ Load(other)
    /\ UNCHANGED <<defvars, guivars, loopvars, demovars>>

PairNext ==
    \/ Reset /\ UNCHANGED envvars
    \/ Step /\ UNCHANGED envvars
    \/ Switch

PairSpec == PairInit /\ [][PairNext]_vars

\* The run state of one object as a value, and the effect of reset() and
\* step() on it when the object is used on its own.
RunStateOf(a) ==
    [tape |-> a.tape, head |-> a.head, current_state |-> a.current_state,
     steps |-> a.steps, transition_trace |-> a.transition_trace,
     halted |-> a.halted]

\* Variant: the step limit is tested on the length of the trace.
StepAlone_TraceLimit(r) ==
    IF Len(r.transition_trace) >= max_steps THEN [r EXCEPT !.halted = TRUE]
    ELSE IF r.halted THEN r
    ELSE LET ext == Extended(r.tape, r.head)
             t == ext[1]
             h == ext[2]
             symbol == PyGet(t, h)
             key == Key(r.current_state, symbol)
         IN  IF key \notin DOMAIN transitions
             THEN [r EXCEPT !.tape = t, !.head = h, !.halted = TRUE]
             ELSE LET tr == transitions[key]
                  IN  [tape |-> PySet(t, h, tr[2]),
                       head |-> Move(h, tr[3]),
                       current_state |-> tr[1],
                       steps |-> r.steps + 1,
                       transition_trace |->
                           Append(r.transition_trace,
                                  TraceEntry(r.current_state, symbol, tr)),
                       halted |-> (r.halted \/ InTerminal(tr[1]))]

ResetAlone(input) ==
    [tape |-> InitialTape(input), head |-> 0, current_state |-> start_state,
     steps |-> 0, transition_trace |-> <<>>, halted |-> FALSE]

StepAlone(r) ==
    IF r.steps >= max_steps THEN [r EXCEPT !.halted = TRUE]
    ELSE IF r.halted THEN r
    ELSE LET ext == Extended(r.tape, r.head)
             t == ext[1]
             h == ext[2]
             symbol == PyGet(t, h)
             key == Key(r.current_state, symbol)
         IN  IF key \notin DOMAIN transitions
             THEN [r EXCEPT !.tape = t, !.head = h, !.halted = TRUE]
             ELSE LET tr == transitions[key]
                  IN  [tape |-> PySet(t, h, tr[2]),
                       head |-> Move(h, tr[3]),
                       current_state |-> tr[1],
                       steps |-> r.steps + 1,
                       transition_trace |->
                           Append(r.transition_trace,
                                  TraceEntry(r.current_state, symbol, tr)),
                       halted |-> (r.halted \/ InTerminal(tr[1]))]

\* reset(input) followed by n calls of step()
RECURSIVE RunAlone(_, _)
RunAlone(input, n) ==
    IF n = 0 THEN ResetAlone(input) ELSE StepAlone(RunAlone(input, n - 1))

----------------------------------------------------------------------------
(* The GUI drivers of atc-9.py and atc-6.py.  The button "Run Simulation"
   calls simulate_tm_gui, which builds the global tm and schedules
   run_tm_step with root.after; run_tm_step steps tm once and schedules
   itself again while the machine continues.  Tk runs one callback at a
   time; `pending` counts the callbacks that are scheduled. *)

\* Bound on the number of scheduled callbacks
MaxPending == 2

\* tm_examples of atc-6.py
tm_examples_6 ==
    [Flip0To1 |->
        [states |-> <<"q0", "q1", "halt", "reject">>,
         tape_alphabet |-> <<"0", "1", "_">>,
         start_state |-> "q0",
         accept_state |-> "halt",
         reject_state |-> "reject",
         transitions |->
            [q0_0 |-> <<"q1", "1", "R">>,
             q1__ |-> <<"halt", "_", "N">>,
             q1_0 |-> <<"reject", "0", "N">>]],
     UnaryIncrement |->
        [states |-> <<"q0", "q1", "halt", "reject">>,
         tape_alphabet |-> <<"1", "_">>,
         start_state |-> "q0",
         accept_state |-> "halt",
         reject_state |-> "reject",
         transitions |->
            [q0_1 |-> <<"q0", "1", "R">>,
             q0__ |-> <<"q1", "1", "N">>,
             q1__ |-> <<"halt", "_", "N">>]],
     HaltingProblem |->
        [states |-> <<"simulate", "halt", "reject">>,
         tape_alphabet |-> <<"0", "1", "_">>,
         start_state |-> "simulate",
         accept_state |-> "halt",
         reject_state |-> "reject",
         transitions |->
            [simulate_0 |-> <<"simulate", "0", "R">>,
             simulate_1 |-> <<"simulate", "1", "R">>,
             simulate__ |-> <<"simulate", "_", "R">>]]]

\* Variant: atc-11.py ships the examples of atc-9.py unchanged.
tm_examples_11_Old == tm_examples

\* tm_examples of atc-11.py: those of atc-9.py with another table for
\* "Match 0n1n".
tm_examples_11 ==
    [tm_examples EXCEPT !["Match0n1n"].transitions =
        ( "q0_0" :> <<"q1", "X", "R">> @@ "q0_X" :> <<"q0", "X", "R">>
       @@ "q0_Y" :> <<"q3", "Y", "R">> @@ "q0__" :> <<"halt", "_", "N">>
       @@ "q0_1" :> <<"reject", "1", "N">> @@ "q1_0" :> <<"q1", "0", "R">>
       @@ "q1_Y" :> <<"q1", "Y", "R">> @@ "q1_1" :> <<"q2", "Y", "L">>
       @@ "q1__" :> <<"reject", "_", "N">> @@ "q2_0" :> <<"q2", "0", "L">>
       @@ "q2_Y" :> <<"q2", "Y", "L">> @@ "q2_X" :> <<"q0", "X", "R">>
       @@ "q3_Y" :> <<"q3", "Y", "R">> @@ "q3_0" :> <<"reject", "0", "N">>
       @@ "q3_1" :> <<"reject", "1", "N">> @@ "q3_X" :> <<"reject", "X", "N">>
       @@ "q3__" :> <<"halt", "_", "N">> )]

\* Bound on the length of the text typed into the entry field
MaxEntryLen == 4

\* entry.get()
GuiInputs == UNION {[1..n -> InputAlphabet] : n \in 0..MaxEntryLen}

\* What simulate_tm_gui of each driver passes to the constructor.
GuiDefs(drv) ==
    IF drv = "atc9" THEN DriverDefs
    ELSE IF drv = "atc11"
    THEN {[states |-> e.states,
           tape_alphabet |-> e.tape_alphabet,
           start_state |-> e.start_state,
           accept_state |-> e.accept_state,
           reject_state |-> e.reject_state,
           transitions |-> e.transitions,
           max_steps |-> DriverMaxSteps] :
             e \in {tm_examples_11[n] : n \in DOMAIN tm_examples_11}}
    ELSE {[states |-> e.states,
           tape_alphabet |-> e.tape_alphabet,
           start_state |-> e.start_state,
           accept_state |-> e.accept_state,
           reject_state |-> e.reject_state,
           transitions |-> e.transitions,
           max_steps |-> DriverMaxSteps] :
             e \in {tm_examples_6[n] : n \in DOMAIN tm_examples_6}}

\* TuringMachine.step of atc-6.py: the engine of atc-9.py without the
\* extension of the tape at its boundaries.
Step_6 ==
    /\ calls' = IF halted THEN calls ELSE calls + 1
    /\ UNCHANGED <<defvars, input_string>>
    /\ IF LimitReached THEN StepLimit
       ELSE IF AlreadyHalted THEN StepAlreadyHalted
       ELSE IF ~PyValidIndex(tape, head) THEN StepIndexError(tape, head)
       ELSE LET symbol == PyGet(tape, head)
                key == Key(current_state, symbol)
            IN  IF key \notin DOMAIN transitions
                THEN StepNoTransition(tape, head, symbol)
                ELSE StepTransition(tape, head, symbol, transitions[key])

\* Variant: the step-limit verdict needs steps > max_steps.
Verdict_StrictLimit(drv, state, n) ==
    IF state = accept_state THEN "Accepted"
    ELSE IF state = reject_state THEN "Rejected"
    ELSE IF drv # "atc6" THEN "Halted"
    ELSE IF n > max_steps THEN "Step limit exceeded"
    ELSE "Halted (no transition)"

\* The verdict run_tm_step shows when the chain ends.
Verdict(drv, state, n) ==
    IF state = accept_state THEN "Accepted"
    ELSE IF state = reject_state THEN "Rejected"
    ELSE IF drv # "atc6" THEN "Halted"
    ELSE IF n >= max_steps THEN "Step limit exceeded"
    ELSE "Halted (no transition)"

\* Variant: run_tm_step never schedules itself again.
ShouldReschedule_Never(cont, h) == FALSE

\* if cont and not tm.halted: root.after(..., run_tm_step)
ShouldReschedule(cont, h) == cont /\ ~h

\* The state right after the first press of "Run Simulation".
GuiInit ==
    /\ driver \in {"atc9", "atc6", "atc11"}
    /\ \E d \in GuiDefs(driver), input \in GuiInputs : Constructed(d, input)
    /\ pending = 1
    /\ output_area = <<>>
    /\ transition_area = <<>>
    /\ verdict_label = ""
    /\ gui_err = "none"
    /\ SingleInstance
    /\ NoLoop
    /\ NoDemo

\* "Run Simulation" is pressed again: a new machine becomes the global tm,
\* the widgets are cleared and one more callback is scheduled.  A callback
\* scheduled earlier stays scheduled.
simulate_tm_gui ==
    /\ pending < MaxPending
    /\ \E d \in GuiDefs(driver), input \in GuiInputs : Construct(d, input)
    /\ output_area' = <<>>
    /\ transition_area' = <<>>
    /\ verdict_label' = ""
    /\ pending' = pending + 1
    /\ gui_err' = "none"
    /\ UNCHANGED <<driver, pairvars, loopvars, demovars>>

\* A scheduled run_tm_step of atc-9.py or atc-11.py fires.
run_tm_step ==
    /\ driver \in {"atc9", "atc11"}
    /\ pending > 0
    /\ UNCHANGED <<driver, pairvars, loopvars, demovars>>
    /\ IF halted
       THEN /\ UNCHANGED <<defvars, runvars, ret, err, histvars>>
            /\ UNCHANGED <<output_area, transition_area, verdict_label>>
            /\ gui_err' = "none"
            /\ pending' = pending - 1
       ELSE /\ Step
            /\ output_area' = Append(output_area, ret'[2])
            /\ IF transition_trace' = <<>>
               THEN \* tm.transition_trace[-1] raises IndexError
                    /\ gui_err' = "IndexError"
                    /\ pending' = pending - 1
                    /\ UNCHANGED <<transition_area, verdict_label>>
               ELSE /\ gui_err' = "none"
                    /\ transition_area' =
                           Append(transition_area,
                                  transition_trace'[Len(transition_trace')])
                    /\ IF ShouldReschedule(ret'[1], halted')
                       THEN /\ pending' = pending
                            /\ UNCHANGED verdict_label
                       ELSE /\ pending' = pending - 1
                            /\ verdict_label' =
                                   Verdict(driver, current_state', steps')

\* A scheduled run_tm_step of atc-6.py fires.
run_tm_step_6 ==
    /\ driver = "atc6"
    /\ pending > 0
    /\ UNCHANGED <<driver, pairvars, loopvars, demovars>>
    /\ IF halted
       THEN /\ UNCHANGED <<defvars, runvars, ret, err, histvars>>
            /\ UNCHANGED <<output_area, transition_area, verdict_label>>
            /\ gui_err' = "none"
            /\ pending' = pending - 1
       ELSE /\ Step_6
            /\ IF err' # "none"
               THEN \* tm.step() raised: the callback ends there
                    /\ gui_err' = err'
                    /\ pending' = pending - 1
                    /\ UNCHANGED <<output_area, transition_area,
                                   verdict_label>>
               ELSE /\ gui_err' = "none"
                    /\ output_area' = Append(output_area, ret'[2])
                    /\ IF ShouldReschedule(ret'[1], halted')
                       THEN /\ pending' = pending
                            /\ UNCHANGED <<transition_area, verdict_label>>
                       ELSE /\ pending' = pending - 1
                            /\ transition_area' =
                                   transition_area \o transition_trace'
                            /\ verdict_label' =
                                   Verdict(driver, current_state', steps')

GuiNext ==
    \/ simulate_tm_gui
    \/ run_tm_step
    \/ run_tm_step_6

GuiSpec == GuiInit /\ [][GuiNext]_vars

\* The callback chain of atc-6.py on a machine built from any constructor
\* arguments (tm_examples given further entries, max_steps given small
\* values): the shipped examples never reach the step-limit branch.
Gui6Defs == GuiDefs("atc6") \cup CtorDefs

Gui6Init ==
    /\ driver = "atc6"
    /\ \E d \in Gui6Defs, input \in Inputs : Constructed(d, input)
    /\ pending = 1
    /\ output_area = <<>>
    /\ transition_area = <<>>
    /\ verdict_label = ""
    /\ gui_err = "none"
    /\ SingleInstance
    /\ NoLoop
    /\ NoDemo

Gui6Next == run_tm_step_6

Gui6Spec == Gui6Init /\ [][Gui6Next]_vars

\* step() of the driver's engine on a run state taken alone; a call that
\* raises leaves the run state as it was.
StepAlone_6(r) ==
    IF r.steps >= max_steps THEN [r EXCEPT !.halted = TRUE]
    ELSE IF r.halted THEN r
    ELSE IF ~PyValidIndex(r.tape, r.head) THEN r
    ELSE LET symbol == PyGet(r.tape, r.head)
             key == Key(r.current_state, symbol)
         IN  IF key \notin DOMAIN transitions
             THEN [r EXCEPT !.halted = TRUE]
             ELSE LET tr == transitions[key]
                  IN  [tape |-> PySet(r.tape, r.head, tr[2]),
                       head |-> Move(r.head, tr[3]),
                       current_state |-> tr[1],
                       steps |-> r.steps + 1,
                       transition_trace |->
                           Append(r.transition_trace,
                                  TraceEntry(r.current_state, symbol, tr)),
                       halted |-> (r.halted \/ InTerminal(tr[1]))]

EngineStepAlone(r) ==
    IF driver = "atc6" THEN StepAlone_6(r) ELSE StepAlone(r)

----------------------------------------------------------------------------
(* The batch engine of atc-1.py: a tape padded once, no halted flag, no
   reject state, no trace, and run(max_steps) as a loop around step().  The
   variable max_steps holds the argument of run(). *)

\* Bound: a run() argument larger than the padded tape
RunLong == 102

\* self.tape = list(input_string) + ['_'] * 100
PadLen_1 == 100

\* tm_def of atc-1.py
tm_def ==
    [states |-> <<"q0", "q1", "halt">>,
     tape_alphabet |-> <<"0", "1", "_">>,
     start_state |-> "q0",
     accept_state |-> "halt",
     transitions |-> [q0_0 |-> <<"q1", "1", "R">>,
                      q1__ |-> <<"halt", "_", "N">>]]

\* Constructor arguments: tm_def and the one-working-state tables.
RunDefs ==
    {tm_def} \cup
    {[states |-> <<"q0", "halt", "reject">>,
      tape_alphabet |-> <<"1", "_">>,
      start_state |-> "q0",
      accept_state |-> "halt",
      transitions |-> tr] : tr \in CtorTables}

RunStepLimits == (1..MaxStepLimit) \cup {RunLong}

\* A TuringMachine of atc-1.py was constructed and run(m) is entered.
RunInit ==
    /\ \E d \in RunDefs, input \in Inputs, m \in RunStepLimits :
        /\ states = d.states
        /\ tape_alphabet = d.tape_alphabet
        /\ start_state = d.start_state
        /\ accept_state = d.accept_state
        /\ reject_state = "none"
        /\ transitions = d.transitions
        /\ max_steps = m
        /\ tape = input \o [i \in 1..PadLen_1 |-> Blank]
        /\ head = 0
        /\ current_state = d.start_state
        /\ steps = 0
        /\ input_string = input
        /\ written = InitialWritten(input)
    /\ transition_trace = <<>>
    /\ halted = FALSE
    /\ ret = <<"TuringMachine">>
    /\ err = "none"
    /\ calls = 0
    /\ cause = "none"
    /\ origin = 0
    /\ pc = "loop"
    /\ result = <<>>
    /\ SingleInstance
    /\ NoGui
    /\ NoDemo

\* TuringMachine.step of atc-1.py
Step_1 ==
    /\ calls' = calls + 1
    /\ UNCHANGED <<defvars, transition_trace, halted, input_string, cause,
                   origin, written>>
    /\ IF ~PyValidIndex(tape, head)
       THEN \* symbol = self.tape[self.head] raises IndexError
            /\ err' = "IndexError"
            /\ ret' = <<>>
            /\ UNCHANGED <<tape, head, current_state, steps>>
       ELSE LET symbol == PyGet(tape, head)
                key == Key(current_state, symbol)
            IN  IF key \notin DOMAIN transitions
                THEN /\ ret' = <<FALSE, <<"miss", current_state, symbol>>>>
                     /\ err' = "none"
                     /\ UNCHANGED <<tape, head, current_state, steps>>
                ELSE LET tr == transitions[key]
                         t == PySet(tape, head, tr[2])
                         h == Move(head, tr[3])
                     IN  /\ tape' = t
                         /\ current_state' = tr[1]
                         /\ head' = h
                         /\ steps' = steps + 1
                         /\ ret' = <<TRUE,
                                     StepMessage(steps + 1, tr[1], h, t)>>
                         /\ err' = "none"

\* if not cont or self.current_state == self.accept_state: break
RunBreaks(cont, state) == ~cont \/ state = accept_state

\* TuringMachine.run of atc-1.py: the test of the while loop and, when it
\* holds, one pass through its body.
run ==
    /\ pc = "loop"
    /\ UNCHANGED <<pairvars, guivars, demovars>>
    /\ IF ~(steps < max_steps)
       THEN /\ pc' = "done"
            /\ UNCHANGED <<defvars, runvars, ret, err, histvars, result>>
       ELSE LET line == StepMessage(steps, current_state, head, tape)
            IN  /\ Step_1
                /\ IF err' # "none"
                   THEN /\ pc' = "raised"
                        /\ result' = Append(result, line)
                   ELSE IF RunBreaks(ret'[1], current_state')
                   THEN /\ pc' = "done"
                        /\ result' = result \o <<line, ret'[2]>>
                   ELSE /\ pc' = "loop"
                        /\ result' = Append(result, line)

RunNext == run

RunSpec == RunInit /\ [][RunNext]_vars

----------------------------------------------------------------------------
(* The halting-problem demo of atc.py: halts(paradox_tm, input_str), where
   paradox_tm asks halts about itself before it builds its machine.  The
   engine variables hold the fields of the TuringMachine object a level of
   the recursion has built; the engine of atc.py has no reject state, no
   halted flag and no trace. *)

\* Bound: sys.getrecursionlimit() (1000 unless the interpreter is told
\* otherwise)
RecursionLimit == 10

\* self.tape = list(input_string) + ['_'] * 100
PadLen_0 == 100

\* def run(self, max_steps=1000, verbose=True)
RunMaxSteps_0 == 1000

\* The function each function of the demo calls: __main__ calls halts,
\* halts calls tm_func = paradox_tm, paradox_tm calls mock_halting_machine,
\* which calls halts.
Callee ==
    [module |-> "halts",
     halts |-> "paradox_tm",
     paradox_tm |-> "mock_halting_machine",
     mock_halting_machine |-> "halts"]

\* The call that finds the stack full is any of the three calls of the
\* cycle, depending on the limit and on the frames below the demo.
RecursionLimits ==
    (RecursionLimit - Cardinality(DOMAIN Callee \ {"module"}) + 1)
        .. RecursionLimit

\* The constructor arguments in the else branch of paradox_tm
paradox_def ==
    [states |-> <<"start", "halt">>,
     tape_alphabet |-> <<"0", "1", "_">>,
     start_state |-> "start",
     accept_state |-> "halt",
     transitions |-> [start_0 |-> <<"halt", "0", "N">>]]

\* No TuringMachine object exists yet.
NoMachine ==
    /\ states = <<>>
    /\ tape_alphabet = <<>>
    /\ start_state = "none"
    /\ accept_state = "none"
    /\ reject_state = "none"
    /\ transitions = <<>>
    /\ max_steps = RunMaxSteps_0
    /\ tape = <<>>
    /\ head = 0
    /\ current_state = "none"
    /\ steps = 0
    /\ transition_trace = <<>>
    /\ halted = FALSE
    /\ ret = <<>>
    /\ err = "none"
    /\ calls = 0
    /\ cause = "none"
    /\ origin = 0
    /\ written = <<>>
    /\ input_string = <<>>

\* The fields of the TuringMachine object of atc.py
Machine_0 ==
    [transitions |-> transitions,
     accept_state |-> accept_state,
     tape |-> tape,
     head |-> head,
     current_state |-> current_state,
     steps |-> steps]

\* TuringMachine.step of atc.py on the object m: the object after the call
\* and the value returned.  (self.tape[self.head] is in range for a head
\* that no transition moves.)
Step_0(m) ==
    LET symbol == PyGet(m.tape, m.head)
        key == Key(m.current_state, symbol)
    IN  IF key \notin DOMAIN m.transitions
        THEN [tm |-> m, cont |-> FALSE]
        ELSE LET tr == m.transitions[key]
                 after == [m EXCEPT !.tape = PySet(m.tape, m.head, tr[2]),
                                    !.current_state = tr[1],
                                    !.head = Move(m.head, tr[3]),
                                    !.steps = m.steps + 1]
             IN  [tm |-> after,
                  cont |-> after.current_state # m.accept_state]

\* The loop of TuringMachine.run of atc.py: the object when the loop ends.
RECURSIVE Run_0(_, _)
Run_0(m, limit) ==
    IF ~(m.steps < limit)
    THEN m
    ELSE LET r == Step_0(m)
         IN  IF ~r.cont THEN r.tm ELSE Run_0(r.tm, limit)

\* Python's str() of a bool
PyBool(b) == IF b THEN "True" ELSE "False"

Top == frames[Len(frames)]
Pop == SubSeq(frames, 1, Len(frames) - 1)

\* n more frames fit on the stack.
Fits(n) == Len(frames) + n <= recursion_limit

\* __main__ is about to call halts(paradox_tm, input_str).
DemoInit ==
    /\ NoMachine
    /\ input_str \in Inputs
    /\ recursion_limit \in RecursionLimits
    /\ frames = <<"module">>
    /\ control = "call"
    /\ retval = "none"
    /\ SingleInstance
    /\ NoGui
    /\ NoLoop

\* The top frame calls its callee and there is room for the new frame.
call ==
    /\ control = "call"
    /\ Fits(1)
    /\ frames' = Append(frames, Callee[Top])
    /\ UNCHANGED <<defvars, runvars, ret, err, histvars>>
    /\ UNCHANGED <<control, retval, input_str, recursion_limit>>
    /\ UNCHANGED <<pairvars, guivars, loopvars>>

\* The top frame calls its callee and the stack is full: the interpreter
\* raises RecursionError in the caller.
raise_RecursionError ==
    /\ control = "call"
    /\ ~Fits(1)
    /\ control' = "raise"
    /\ UNCHANGED <<defvars, runvars, ret, err, histvars>>
    /\ UNCHANGED <<frames, retval, input_str, recursion_limit>>
    /\ UNCHANGED <<pairvars, guivars, loopvars>>

\* The exception leaves paradox_tm or mock_halting_machine, which have no
\* handler.
propagate ==
    /\ control = "raise"
    /\ Top \in {"paradox_tm", "mock_halting_machine"}
    /\ frames' = Pop
    /\ UNCHANGED <<defvars, runvars, ret, err, histvars>>
    /\ UNCHANGED <<control, retval, input_str, recursion_limit>>
    /\ UNCHANGED <<pairvars, guivars, loopvars>>

\* except RecursionError in halts: print the message and return False.
\* print writes to sys.stdout, whose write method may be a Python function
\* and then needs a frame of its own: on a full stack the handler either
\* returns False or raises RecursionError again, depending on the
\* interpreter and on what sys.stdout is.
halts_except ==
    /\ control = "raise"
    /\ Top = "halts"
    /\ frames' = Pop
    /\ \/ control' = "return" /\ retval' = PyBool(FALSE)
       \/ ~Fits(1) /\ control' = "raise" /\ retval' = retval
    /\ UNCHANGED <<defvars, runvars, ret, err, histvars>>
    /\ UNCHANGED <<input_str, recursion_limit>>
    /\ UNCHANGED <<pairvars, guivars, loopvars>>

\* return halts(paradox_tm, s) in mock_halting_machine
mock_halting_machine ==
    /\ control = "return"
    /\ Top = "mock_halting_machine"
    /\ frames' = Pop
    /\ UNCHANGED <<defvars, runvars, ret, err, histvars>>
    /\ UNCHANGED <<control, retval, input_str, recursion_limit>>
    /\ UNCHANGED <<pairvars, guivars, loopvars>>

\* paradox_tm after mock_halting_machine(input_str) returned: enter
\* "while True: pass" when the value is true, else build the machine (a
\* call of __init__) and return it.
paradox_tm ==
    /\ control = "return"
    /\ Top = "paradox_tm"
    /\ UNCHANGED <<reject_state, max_steps, transition_trace, halted, ret,
                   err, histvars>>
    /\ UNCHANGED <<input_str, recursion_limit>>
    /\ UNCHANGED <<pairvars, guivars, loopvars>>
    /\ IF retval = PyBool(TRUE)
       THEN /\ control' = "loop"
            /\ UNCHANGED <<frames, retval>>
            /\ UNCHANGED <<states, tape_alphabet, start_state, accept_state,
                           transitions, tape, head, current_state, steps>>
       ELSE IF ~Fits(1)
       THEN /\ control' = "raise"
            /\ UNCHANGED <<frames, retval>>
            /\ UNCHANGED <<states, tape_alphabet, start_state, accept_state,
                           transitions, tape, head, current_state, steps>>
       ELSE /\ states' = paradox_def.states
            /\ tape_alphabet' = paradox_def.tape_alphabet
            /\ start_state' = paradox_def.start_state
            /\ accept_state' = paradox_def.accept_state
            /\ transitions' = paradox_def.transitions
            /\ tape' = input_str \o [i \in 1..PadLen_0 |-> Blank]
            /\ head' = 0
            /\ current_state' = paradox_def.start_state
            /\ steps' = 0
            /\ frames' = Pop
            /\ control' = "return"
            /\ retval' = "TuringMachine"

\* halts after tm_func(input_str) returned the machine:
\* return tm.run(verbose=False), which needs a frame for run and one for
\* step.
halts ==
    /\ control = "return"
    /\ Top = "halts"
    /\ UNCHANGED <<defvars, transition_trace, halted, ret, err, histvars>>
    /\ UNCHANGED <<input_str, recursion_limit>>
    /\ UNCHANGED <<pairvars, guivars, loopvars>>
    /\ IF ~Fits(2)
       THEN /\ control' = "raise"
            /\ UNCHANGED <<frames, retval, tape, head, current_state, steps>>
       ELSE LET m == Run_0(Machine_0, max_steps)
            IN  /\ tape' = m.tape
                /\ head' = m.head
                /\ current_state' = m.current_state
                /\ steps' = m.steps
                /\ frames' = Pop
                /\ control' = "return"
                /\ retval' = PyBool(m.current_state = m.accept_state)

\* while True: pass
loop ==
    /\ control = "loop"
    /\ UNCHANGED vars

\* The call of line 105 is over: halts returned, or the exception reached
\* "except Exception" of __main__.
demo_ends ==
    /\ control \in {"return", "raise"}
    /\ Top = "module"
    /\ control' = IF control = "raise" THEN "failed" ELSE "done"
    /\ UNCHANGED <<defvars, runvars, ret, err, histvars>>
    /\ UNCHANGED <<frames, retval, input_str, recursion_limit>>
    /\ UNCHANGED <<pairvars, guivars, loopvars>>

DemoNext ==
    \/ call
    \/ raise_RecursionError
    \/ propagate
    \/ halts_except
    \/ mock_halting_machine
    \/ paradox_tm
    \/ halts
    \/ loop
    \/ demo_ends

DemoSpec == DemoInit /\ [][DemoNext]_vars

----------------------------------------------------------------------------
(* Properties *)

\* The last call was step() and it returned (continues, message).
Returned == Len(ret) = 2
Continues == ret[1]
MessageKind == ret[2][1]

\* C1: once halted is true, a further step() call leaves current_state,
\* head, tape and steps unchanged and returns continues = False.
C1_HaltedIdempotent ==
    [][(halted /\ Step) =>
          /\ UNCHANGED <<current_state, head, tape, steps>>
          /\ ret'[1] = FALSE]_vars

\* A halted machine whose current state and symbol under the head do have a
\* transition has been stepped again.
C1_Witness ==
    /\ halted /\ Returned /\ MessageKind = "already"
    /\ cause = "terminal"
    /\ 0 <= head /\ head < Len(tape)
    /\ Key(current_state, tape[head + 1]) \in DOMAIN transitions

\* C2: after reset(), halted is true after at most max_steps + 1 calls of
\* step(), and no call fails with an out-of-range tape access.
C2_GuaranteedHalting ==
    /\ err = "none"
    /\ calls <= max_steps + 1
    /\ (~halted => calls <= max_steps)

\* A machine that never stops by itself is halted by the step limit on call
\* number max_steps + 1.
C2_Witness ==
    /\ halted /\ cause = "limit"
    /\ max_steps = LongRun /\ calls = max_steps + 1

\* C3: steps equals the number of entries of transition_trace.
C3_StepAccounting == steps = Len(transition_trace)

\* A run that executed transitions and was then halted by a lookup miss.
C3_Witness ==
    /\ steps >= 2 /\ Len(transition_trace) = steps
    /\ halted /\ cause = "miss"

\* C4: steps never exceeds max_steps.
C4_StepBound == steps <= max_steps

\* The step limit has been reached and a further step() was refused.
C4_Witness ==
    /\ steps = max_steps /\ Returned /\ MessageKind = "limit"
    /\ cause = "limit"

\* Verdict of a halted run.  Accepted and Rejected are is_accepted() and
\* is_rejected(); the other two are named by the branch that halted the run.
Accepted == is_accepted
Rejected == is_rejected
StepLimitExceeded == cause = "limit" /\ ~InTerminal(current_state)
StuckNoTransition == cause = "miss" /\ ~InTerminal(current_state)

VerdictCount ==
    Cardinality({v \in {"Accepted", "Rejected", "StepLimitExceeded",
                        "StuckNoTransition"} :
        \/ v = "Accepted" /\ Accepted
        \/ v = "Rejected" /\ Rejected
        \/ v = "StepLimitExceeded" /\ StepLimitExceeded
        \/ v = "StuckNoTransition" /\ StuckNoTransition})

C6_StepLimitFirst ==
    [][(steps >= max_steps /\ Step) =>
          /\ halted'
          /\ ret'[1] = FALSE
          /\ UNCHANGED <<tape, head, current_state, steps,
                         transition_trace>>]_vars

\* The limit branch was taken with the head left of cell 0, where a call
\* that got as far as the boundary extension would have changed the tape.
C6_Witness ==
    /\ Returned /\ MessageKind = "limit"
    /\ head < 0 /\ steps = max_steps /\ ~InTerminal(current_state)

\* The current state and the symbol step() would read have no transition.
LookupMisses ==
    LET ext == Extended(tape, head)
    IN  Key(current_state, PyGet(ext[1], ext[2])) \notin DOMAIN transitions

\* C7: on a lookup miss step() sets halted, returns continues = False,
\* raises nothing and leaves current_state, steps, transition_trace, the
\* symbol of every tape cell and the logical head position unchanged; a cell
\* added by the boundary extension is blank.
C7_MissHalts ==
    [][(Step /\ steps < max_steps /\ ~halted /\ LookupMisses) =>
          LET shift == IF head < 0 THEN 1 ELSE 0
          IN  /\ halted'
              /\ ret'[1] = FALSE
              /\ err' = "none"
              /\ UNCHANGED <<current_state, steps, transition_trace>>
              /\ head' = head + shift
              /\ \A i \in 1..Len(tape) : tape'[i + shift] = tape[i]
              /\ \A j \in 1..Len(tape') :
                    (j - shift \notin 1..Len(tape)) => tape'[j] = Blank]_vars

\* A run executed a transition, moved left of cell 0 and then missed on the
\* cell the extension added.
C7_Witness ==
    /\ Returned /\ MessageKind = "miss"
    /\ cause = "miss" /\ steps >= 1 /\ origin >= 1 /\ head = 0

\* C8: when the executed transition leads to accept_state or reject_state,
\* the same step() call sets halted, increments steps, applies the write and
\* the head move and returns continues = False.
C8_TerminalHaltsAtOnce ==
    [][(Step /\ steps < max_steps /\ ~halted /\ ~LookupMisses) =>
          LET ext == Extended(tape, head)
              tr == transitions[Key(current_state, PyGet(ext[1], ext[2]))]
          IN  (tr[1] \in {accept_state, reject_state}) =>
                /\ halted'
                /\ steps' = steps + 1
                /\ current_state' = tr[1]
                /\ tape' = [ext[1] EXCEPT ![ext[2] + 1] = tr[2]]
                /\ head' = ext[2] + (CASE tr[3] = "R" -> 1
                                       [] tr[3] = "L" -> -1
                                       [] OTHER -> 0)
                /\ ret'[1] = FALSE]_vars

\* The reject state was entered by a transition that wrote a non-blank
\* symbol and moved the head.
C8_Witness ==
    /\ halted /\ cause = "terminal" /\ Returned /\ MessageKind = "step"
    /\ current_state = reject_state /\ current_state # accept_state
    /\ steps >= 1
    /\ transition_trace[steps][4] # Blank
    /\ transition_trace[steps][5] = "L"
    /\ ~Continues

\* C9: once halted is true it stays true under step(); only reset() makes it
\* false again.
C9_HaltedIsTerminal ==
    [][/\ (halted /\ Step) => halted'
       /\ (halted /\ ~halted') => Reset]_vars

\* A machine halted by entering a terminal state was stepped again when the
\* step limit had been reached as well.
C9_Witness ==
    /\ halted /\ cause = "terminal"
    /\ Returned /\ MessageKind = "limit"

\* Every symbol stored so far is found at its logical offset from the
\* original cell 0.
WrittenPreserved ==
    \A k \in DOMAIN written :
        /\ origin + k + 1 \in 1..Len(tape)
        /\ tape[origin + k + 1] = written[k]

C11_AccessInRange ==
    /\ [](-1 <= head /\ head <= Len(tape))
    /\ [][(Step /\ steps < max_steps /\ ~halted) =>
            LET idx == IF head < 0 THEN 0 ELSE head
                shift == IF head < 0 THEN 1 ELSE 0
            IN  /\ err' = "none"
                /\ 0 <= idx /\ idx < Len(tape')
                /\ \A i \in 1..Len(tape) :
                      (i + shift # idx + 1) => tape'[i + shift] = tape[i]
                /\ (0 <= head /\ head < Len(tape)) => Len(tape') = Len(tape)
                /\ (head = Len(tape)) =>
                      /\ Len(tape') = Len(tape) + 1
                      /\ tape'[Len(tape')] =
                            IF Key(current_state, Blank) \in DOMAIN transitions
                            THEN transitions[Key(current_state, Blank)][2]
                            ELSE Blank]_vars

\* A run on the empty input moved right on every step and went on past the
\* right end of the initial window, the tape growing by one cell per step.
C11_Witness ==
    /\ origin = 0 /\ steps > PadLen
    /\ head = steps /\ Len(tape) = steps
    /\ err = "none"

\* C12 as stated: head >= 0 in every state observable after reset() or
\* after a step() call returned.
C12_HeadNonNegative == head >= 0

\* C12 amended: head >= -1 in every observable state; head = -1 only when
\* the last executed transition moved left (from cell 0), and a step() that
\* goes on to read the tape re-indexes it to 0 first.
C12_HeadAtLeastMinusOne ==
    /\ [](/\ head >= -1
          /\ (head = -1) =>
                /\ steps >= 1
                /\ transition_trace[steps][5] = "L")
    /\ [][(Step /\ steps < max_steps /\ ~halted /\ head < 0) =>
            /\ head' \in {-1, 0, 1}
            /\ (head' = -1) => (Len(transition_trace') = steps + 1
                                /\ transition_trace'[steps + 1][5] = "L")]_vars

\* A run has ended (halted) with the head left of cell 0.
C12_Witness ==
    /\ halted /\ head = -1 /\ Returned /\ origin >= 1

\* The state reset(input_string) builds.
FreshRunState ==
    /\ Len(tape) = Len(input_string) + 50
    /\ \A i \in 1..Len(tape) :
          tape[i] = IF i <= Len(input_string) THEN input_string[i] ELSE "_"
    /\ head = 0
    /\ current_state = start_state
    /\ steps = 0
    /\ halted = FALSE
    /\ transition_trace = <<>>

\* C13: after reset(input), as after the constructor, the run state is the
\* fresh state for that input whatever the state before was, and no call
\* changes the machine definition or max_steps.
C13_ResetIsFresh ==
    /\ []((~Returned /\ err = "none") => FreshRunState)
    /\ [][UNCHANGED defvars]_vars

\* reset() has been called (on a machine that existed already) with a
\* non-empty input.
C13_Witness ==
    /\ ret = <<>> /\ err = "none"
    /\ Len(input_string) = MaxInputLen
    /\ FreshRunState

\* C15 as stated: whenever step() returns the step-limit result,
\* current_state is neither accept_state nor reject_state and the verdict is
\* StepLimitExceeded, not Accepted or Rejected.
C15_LimitResultMeansStepLimit ==
    (Returned /\ MessageKind = "limit") =>
        /\ current_state \notin {accept_state, reject_state}
        /\ StepLimitExceeded /\ ~Accepted /\ ~Rejected

\* C15 amended: whenever a step() call on a machine that was not halted yet
\* returns the step-limit result, current_state is neither accept_state nor
\* reject_state and the verdict is StepLimitExceeded.
C15_LimitHaltMeansStepLimit ==
    /\ [][(Step /\ ~halted /\ steps >= max_steps) =>
            /\ ret'[2][1] = "limit"
            /\ current_state' \notin {accept_state, reject_state}
            /\ cause' = "limit"]_vars
    /\ [](cause = "limit" =>
            /\ current_state \notin {accept_state, reject_state}
            /\ StepLimitExceeded /\ ~Accepted /\ ~Rejected)

\* A run that executed max_steps transitions was halted by the step limit.
C15_Witness ==
    /\ Returned /\ MessageKind = "limit" /\ cause = "limit"
    /\ steps = max_steps /\ StepLimitExceeded

\* The machine is the one of example scenario 3, started on input "0".
IsExample3Run ==
    /\ transitions = Example3Def.transitions
    /\ start_state = "loop" /\ accept_state = "halt" /\ max_steps = 5
    /\ input_string = <<"0">>

\* C20 as stated: example 3 on input "0" ends with verdict
\* StepLimitExceeded after exactly 5 executed steps.
C20_Example3StepLimit ==
    (IsExample3Run /\ halted) => (StepLimitExceeded /\ steps = 5)

\* C20 amended: example 3 on input "0" ends with verdict StuckNoTransition
\* after exactly 1 executed step: the second step() reads the blank after
\* the input and finds no transition for (loop, '_').
C20_Example3Stuck ==
    /\ (IsExample3Run /\ halted) =>
          /\ StuckNoTransition /\ ~StepLimitExceeded
          /\ steps = 1 /\ head = 1
          /\ (Returned /\ MessageKind = "miss") => ret[2] = <<"miss", "loop", "_">>
    /\ (IsExample3Run /\ ~halted) => steps <= 1

\* Example 3 on input "0" has halted.
C20_Witness ==
    /\ IsExample3Run /\ halted /\ steps = 1
    /\ Returned /\ MessageKind = "miss"

\* C14: two runs of the same definition on the same input agree after the
\* same number of step() calls in current_state, head, tape, steps, halted
\* and transition_trace, and in the verdict, whatever either object did
\* before its reset().
C14_Determinism ==
    (input_string = other.input_string /\ calls = other.calls) =>
        /\ RunStateOf(Attributes) = RunStateOf(other)
        /\ cause = other.cause
        /\ is_accepted = (other.current_state = accept_state)
        /\ is_rejected = (other.current_state = reject_state)

\* Both objects ran on the same non-empty input to the end, one of them
\* after an explicit reset().
C14_Witness ==
    /\ input_string = other.input_string /\ Len(input_string) >= 1
    /\ calls = other.calls /\ calls >= 2
    /\ halted /\ other.halted
    /\ self = 2

\* C16: under every interleaving of reset() and step() calls on two objects
\* that share a definition, the run state of each object is the one it has
\* when it runs alone (reset(input) followed by its own step() calls), and
\* the shared definition is never modified.
C16_NonInterference ==
    /\ [](/\ RunStateOf(Attributes) = RunAlone(input_string, calls)
          /\ RunStateOf(other) = RunAlone(other.input_string, other.calls))
    /\ [][UNCHANGED defvars]_vars

\* Both objects are in the middle of runs on different inputs, at different
\* points, each with transitions executed.
C16_Witness ==
    /\ input_string # other.input_string
    /\ steps >= 1 /\ other.steps >= 1 /\ steps # other.steps
    /\ transition_trace # other.transition_trace
    /\ self = 2

\* C17: the chain of timer callbacks visits the run states of a plain loop
\* around step(): it starts from the state reset() leaves, every callback
\* either leaves the machine alone or makes the one step() call the loop
\* makes next (on a machine that has not halted), the chain ends only in a
\* state where the loop has ended (a further step() changes nothing: the
\* machine halted or the call raised), and the verdict shown is the verdict
\* of that final state.
C17_PacingIndependence ==
    /\ [](/\ calls = 0 => RunStateOf(Attributes) = ResetAlone(input_string)
          /\ pending = 0 =>
                /\ EngineStepAlone(RunStateOf(Attributes))
                       = RunStateOf(Attributes)
                /\ halted \/ err # "none"
          /\ verdict_label # "" =>
                /\ halted
                /\ verdict_label = Verdict(driver, current_state, steps))
    /\ [][IF pending' > pending
          THEN calls' = 0
          ELSE \/ UNCHANGED <<runvars, calls>>
               \/ /\ ~halted
                  /\ calls' = calls + 1
                  /\ RunStateOf(Attributes)'
                         = EngineStepAlone(RunStateOf(Attributes))]_vars

\* A chain of at least three callbacks ran to its end and showed a verdict.
C17_Witness ==
    /\ pending = 0 /\ calls >= 3 /\ halted
    /\ verdict_label = "Accepted"
    /\ Len(output_area) = calls

\* C18: at most one run_tm_step callback is scheduled at any moment, so no
\* two scheduled callbacks step the machine that is the global tm.
C18_OnePendingChain == pending <= 1

\* C19: run(max_steps) ends only by returning, and only after a step() call
\* that returned continues = False or left current_state = accept_state, or
\* with steps = max_steps; it makes at most max_steps step() calls.
C19_RunIsBoundedLoop ==
    /\ err = "none"
    /\ pc \in {"loop", "done"}
    /\ calls <= max_steps
    /\ steps <= max_steps
    /\ pc = "done" =>
          \/ Returned /\ ~Continues
          \/ current_state = accept_state
          \/ steps = max_steps

\* The machine is the shipped Binary Palindrome Checker of atc-9.py.
IsPalindromeRun ==
    /\ driver = "atc9"
    /\ transitions = tm_examples["Palindrome"].transitions

\* C21: the shipped Binary Palindrome Checker ends Accepted on input "101"
\* and Rejected (current_state = reject_state) on input "100".
C21_PalindromeExample ==
    (IsPalindromeRun /\ halted) =>
        /\ input_string = <<"1", "0", "1">> => Accepted
        /\ input_string = <<"1", "0", "0">> =>
              Rejected /\ current_state = reject_state

\* The machine is the shipped "Flip 0 to 1" of atc-6.py, which holds the two
\* transitions of examples 1 and 2.
IsFlipRun ==
    /\ driver = "atc6"
    /\ transitions = tm_examples_6.Flip0To1.transitions
    /\ start_state = "q0" /\ accept_state = "halt"

\* C22: example 1 on input "0" halts after exactly 2 executed steps, in
\* state halt (Accepted), with the tape stripped of blanks equal to "1".
C22_Example1 ==
    (IsFlipRun /\ input_string = <<"0">>) =>
        /\ steps <= 2
        /\ halted <=> steps = 2
        /\ halted =>
              /\ current_state = "halt"
              /\ Accepted /\ ~Rejected
              /\ StripBlank(tape) = <<"1">>
              /\ err = "none"

\* The run of example 1 has ended and the GUI shows its verdict.
C22_Witness ==
    /\ IsFlipRun /\ input_string = <<"0">>
    /\ halted /\ steps = 2 /\ pending = 0
    /\ verdict_label = "Accepted"

\* C23: example 2 (same definition, input "1"): the first step() finds no
\* transition for (q0, '1'); the run halts with steps = 0, an empty trace
\* and the tape unchanged, with verdict StuckNoTransition and no other.
C23_Example2 ==
    (IsFlipRun /\ input_string = <<"1">>) =>
        /\ steps = 0
        /\ transition_trace = <<>>
        /\ tape = InitialTape(input_string)
        /\ current_state = "q0"
        /\ calls >= 1 =>
              /\ halted
              /\ ret = <<FALSE, <<"miss", "q0", "1">>>>
              /\ StuckNoTransition
              /\ ~Accepted /\ ~Rejected /\ ~StepLimitExceeded

\* The first step() of example 2 was made and the chain ended.
C23_Witness ==
    /\ IsFlipRun /\ input_string = <<"1">>
    /\ calls = 1 /\ halted /\ pending = 0
    /\ verdict_label = "Halted (no transition)"

\* The start state has a transition on blank directly to accept_state and
\* the input is empty.
BlankToAccept ==
    /\ driver \in {"atc9", "atc11"}
    /\ input_string = <<>>
    /\ Key(start_state, Blank) \in DOMAIN transitions
    /\ transitions[Key(start_state, Blank)][1] = accept_state

\* C24: example 5: on the empty input the head first reads a blank, and a
\* definition whose start state goes on blank directly to accept_state is
\* Accepted after exactly 1 executed step.
C24_EmptyInputAccepted ==
    BlankToAccept =>
        /\ calls = 0 => PyGet(tape, head) = Blank
        /\ steps <= 1
        /\ halted <=> steps = 1
        /\ halted => Accepted /\ cause = "terminal"

\* 'Even number of 1s' on the empty input was accepted by its first step.
C24_Witness ==
    /\ BlankToAccept
    /\ transitions = tm_examples["EvenOnes"].transitions
    /\ halted /\ steps = 1 /\ calls = 1
    /\ verdict_label = "Accepted"

\* The call appended an entry to the trace: a transition was executed.
Executed == Len(transition_trace') = Len(transition_trace) + 1

\* The change of head the direction letter stands for.
Delta(direction) ==
    CASE direction = "R" -> 1
      [] direction = "L" -> -1
      [] OTHER -> 0

\* The transition an executing step() finds: the symbol under the head is
\* the cell's content, or a blank when the head stands just outside.
Found ==
    LET symbol == IF head + 1 \in 1..Len(tape) THEN tape[head + 1] ELSE Blank
    IN  transitions[Key(current_state, symbol)]

\* C25 as stated, on the values of the attributes before and after the
\* call: exactly the cell tape[head] changes, to the written symbol, head
\* changes by +1, -1 or 0, steps grows by 1 and the definition is unchanged.
C25_TransitionEffectRaw ==
    [][Executed =>
          /\ \A i \in 1..Len(tape) :
                tape'[i] = IF i = head + 1 THEN Found[2] ELSE tape[i]
          /\ current_state' = Found[1]
          /\ head' = head + Delta(Found[3])
          /\ steps' = steps + 1
          /\ UNCHANGED defvars]_vars

\* C25, amended: the effect is the stated one on the tape as step() has
\* extended it.  With shift = 1 when the call found head = -1 and prepended
\* a blank (0 otherwise), every old cell i is cell i + shift afterwards
\* with its symbol, except the cell under the head, which holds the written
\* symbol; cells added by the extension are blank unless under the head;
\* head' = head + shift + Delta; steps grows by 1; the definition is
\* unchanged.
C25_TransitionEffect ==
    [][Executed =>
          LET shift == origin' - origin
              cell == head + shift + 1
          IN  /\ shift = (IF head < 0 THEN 1 ELSE 0)
              /\ Len(tape') =
                    Len(tape) + shift + (IF head >= Len(tape) THEN 1 ELSE 0)
              /\ cell \in 1..Len(tape')
              /\ \A j \in 1..Len(tape') :
                    tape'[j] =
                        IF j = cell THEN Found[2]
                        ELSE IF j - shift \in 1..Len(tape)
                        THEN tape[j - shift]
                        ELSE Blank
              /\ current_state' = Found[1]
              /\ head' = head + shift + Delta(Found[3])
              /\ steps' = steps + 1
              /\ UNCHANGED defvars]_vars

\* A transition was executed on a cell that its own call prepended: it
\* wrote "1" there and moved right.
C25_Witness ==
    /\ origin = 1 /\ head = 1
    /\ tape[1] = "1"
    /\ Returned /\ MessageKind = "step" /\ steps >= 2

\* A run state without its trace.
Core(r) ==
    [tape |-> r.tape, head |-> r.head, current_state |-> r.current_state,
     steps |-> r.steps, halted |-> r.halted]

\* Other contents the trace could have: none, an entry missing, an entry
\* that was never executed.
OtherTraces(t) ==
    {<<>>,
     IF t = <<>> THEN <<>> ELSE Tail(t),
     Append(t, <<"q0", Blank, "q0", Blank, "N">>)}

\* C26: every step() leaves the existing trace entries as they are and
\* appends at most one entry, at the end: the transition it executed, and it
\* appends exactly when it executes one.  The tape, head, current_state,
\* steps and halted a step() produces are the same whatever the trace
\* holds.
C26_TraceAppendOnly ==
    /\ [][Step =>
            /\ \/ UNCHANGED transition_trace
               \/ transition_trace' =
                     Append(transition_trace,
                            <<current_state,
                              IF head + 1 \in 1..Len(tape)
                              THEN tape[head + 1] ELSE Blank,
                              Found[1], Found[2], Found[3]>>)
            /\ Executed <=> steps' = steps + 1
            /\ RunStateOf(Attributes)' = StepAlone(RunStateOf(Attributes))
       ]_vars
    /\ [](LET r == RunStateOf(Attributes)
          IN  \A t \in OtherTraces(transition_trace) :
                 Core(StepAlone([r EXCEPT !.transition_trace = t]))
                     = Core(StepAlone(r)))

\* Two transitions are on the trace and the next call, a lookup miss,
\* appended nothing.
C26_Witness ==
    /\ Len(transition_trace) >= 2
    /\ Returned /\ MessageKind = "miss"
    /\ calls = steps + 1

\* C27: the verdict the atc-6 driver shows matches the cause of halting:
\* 'Step limit exceeded' exactly when the run halted in the steps >=
\* max_steps branch outside accept_state and reject_state, 'Halted (no
\* transition)' exactly when it halted by a lookup miss outside both; a
\* chain that ended without an exception has shown its verdict.
C27_VerdictMatchesCause ==
    /\ verdict_label # "" =>
          /\ halted
          /\ verdict_label = "Step limit exceeded" <=> StepLimitExceeded
          /\ verdict_label = "Halted (no transition)" <=> StuckNoTransition
          /\ verdict_label = "Accepted" <=> Accepted
          /\ verdict_label = "Rejected" <=> (Rejected /\ ~Accepted)
    /\ halted => verdict_label # ""

\* A run was cut by the step limit after executing transitions, and the
\* driver shows it.
C27_Witness ==
    /\ verdict_label = "Step limit exceeded"
    /\ cause = "limit" /\ steps = max_steps /\ steps >= 2
    /\ pending = 0

\* The machine is the shipped "Halting Problem" example of atc-6.py.
IsHaltingProblemRun ==
    /\ driver = "atc6"
    /\ transitions = tm_examples_6.HaltingProblem.transitions
    /\ max_steps = DriverMaxSteps

\* C28: in the atc-6 engine the blank run is a buffer, not a bound: on the
\* 'Halting Problem' example no step() raises, every read is inside the
\* tape, and the chain ends only halted, after exactly max_steps = 1000
\* executed steps, with the verdict 'Step limit exceeded'.
C28_BufferNotBound ==
    IsHaltingProblemRun =>
        /\ err = "none" /\ gui_err = "none"
        /\ pending = 0 =>
              /\ halted
              /\ steps = DriverMaxSteps
              /\ verdict_label = "Step limit exceeded"

\* w is 0^n 1^n for some n >= 0.
Is0n1n(w) ==
    \E n \in 0..Len(w) :
        /\ Len(w) = 2 * n
        /\ \A i \in 1..n : w[i] = "0"
        /\ \A i \in (n + 1)..(2 * n) : w[i] = "1"

\* The machine is the "Match 0n1n" example of atc-11.py.
IsMatch11Run ==
    /\ driver = "atc11"
    /\ transitions = tm_examples_11["Match0n1n"].transitions
    /\ start_state = "q0" /\ accept_state = "halt"
    /\ reject_state = "reject"

\* C29: the atc-11 "Match 0n1n" machine recognizes {0^n 1^n | n >= 0}: on
\* every input it halts by entering accept_state when the input is 0^n 1^n
\* and by entering reject_state otherwise; it never misses a lookup, never
\* reaches the step limit, and its callback chain ends only with the
\* machine halted.
C29_Match11Recognizes ==
    IsMatch11Run =>
        /\ err = "none" /\ gui_err = "none"
        /\ steps < max_steps
        /\ steps <= (Len(input_string) + 2) * (Len(input_string) + 2)
        /\ cause \in {"none", "terminal"}
        /\ pending = 0 => halted
        /\ halted =>
              /\ Accepted <=> Is0n1n(input_string)
              /\ Rejected <=> ~Is0n1n(input_string)
              /\ current_state \in {accept_state, reject_state}

\* 0011 was accepted and the GUI shows it.
C29_Witness ==
    /\ IsMatch11Run
    /\ input_string = <<"0", "0", "1", "1">>
    /\ halted /\ Accepted /\ pending = 0
    /\ verdict_label = "Accepted"

\* The machine is the "Match 0n1n" example of atc-9.py.
IsMatch9Run ==
    /\ driver = "atc9"
    /\ transitions = tm_examples["Match0n1n"].transitions
    /\ start_state = "q0" /\ accept_state = "halt"

\* C30: the atc-9 "Match 0n1n" machine ends Accepted exactly on the inputs
\* 0^n 1^n, n >= 0.
C30_Match9Accepts ==
    (IsMatch9Run /\ halted) => (Accepted <=> Is0n1n(input_string))

\* w reads the same forwards and backwards.
IsPalindrome(w) == \A i \in 1..Len(w) : w[i] = w[Len(w) + 1 - i]

\* C31: the shipped Binary Palindrome Checker ends Accepted exactly on the
\* binary palindromes.
C31_PalindromeAccepts ==
    (IsPalindromeRun /\ halted) => (Accepted <=> IsPalindrome(input_string))

\* The machine is the shipped "Unary Increment" of atc-6.py and the input
\* is 1^n.
IsUnary6Run ==
    /\ driver = "atc6"
    /\ transitions = tm_examples_6.UnaryIncrement.transitions
    /\ \A i \in 1..Len(input_string) : input_string[i] = "1"

\* C32: Unary Increment of atc-6.py on 1^n halts in accept_state 'halt'
\* (Accepted) with the trimmed tape 1^(n+1), and its chain ends only so.
C32_UnaryIncrement ==
    IsUnary6Run =>
        /\ err = "none"
        /\ halted =>
              /\ current_state = "halt" /\ Accepted
              /\ StripBlank(tape) = Append(input_string, "1")
        /\ pending = 0 => halted /\ verdict_label = "Accepted"

\* C33: in every state reached by reset() and step(), for every definition,
\* current_state in {accept_state, reject_state} implies halted.
C33_TerminalImpliesHalted ==
    current_state \in {accept_state, reject_state} => halted

\* The driver is the one of atc-9.py or atc-11.py.
IsDriver9 == driver \in {"atc9", "atc11"}

\* C34: in the atc-9/atc-11 driver no callback fails, and a callback chain
\* that has ended has set verdict_label.
C34_VerdictDisplayed ==
    IsDriver9 =>
        /\ gui_err = "none"
        /\ pending = 0 => verdict_label # ""

\* C35: when a run of the atc-9/atc-11 driver has finished, the lines
\* inserted into transition_area are the entries of transition_trace, each
\* once and in order.
C35_DisplayMirrorsTrace ==
    (IsDriver9 /\ pending = 0 /\ gui_err = "none") =>
        transition_area = transition_trace

\* The executed transition has a direction that is neither 'R' nor 'L'.
StaysPut == Found[3] \notin {"R", "L"}

\* C36 as stated, on the values of head before and after the call: a
\* transition with a direction other than 'R' and 'L' leaves head unchanged,
\* writes, changes state, increments steps and reports no error, and head
\* changes by at most 1 per executed transition.
C36_UnknownDirectionStaysRaw ==
    [][Executed =>
          /\ StaysPut =>
                /\ head' = head
                /\ current_state' = Found[1]
                /\ steps' = steps + 1
                /\ err' = "none" /\ Len(ret') = 2
          /\ head' - head \in {-1, 0, 1}]_vars

\* C36, amended: the same with head taken after the boundary extension
\* (head + shift, shift = 1 when the call found head = -1 and prepended a
\* blank, else 0): the cell under that head holds the written symbol.
C36_UnknownDirectionStays ==
    [][Executed =>
          LET shift == origin' - origin
          IN  /\ StaysPut =>
                    /\ head' = head + shift
                    /\ tape'[head' + 1] = Found[2]
                    /\ current_state' = Found[1]
                    /\ steps' = steps + 1
                    /\ err' = "none" /\ Len(ret') = 2
              /\ head' - (head + shift) \in {-1, 0, 1}]_vars

\* A transition with the direction letter 'S' was executed on a cell the
\* call had to prepend, and the run went on from there.
C36_Witness ==
    /\ steps >= 2 /\ origin >= 1
    /\ transition_trace[steps][5] = OtherDirection
    /\ transition_trace[steps - 1][5] = "L"
    /\ head = 0 /\ tape[1] = "1"
    /\ ~halted

\* C37: the halting-problem demo terminates: for every input string no
\* level of the unwinding recursion enters the "while True: pass" loop of
\* paradox_tm, so halts(paradox_tm, input) returns after the RecursionError
\* was caught.
C37_NoLevelLoops == control # "loop"

====
